---- MODULE Spec2Model ----
(***************************************************************************)
(* Model of src/domain/msg/msg_entity.rs (himalaya): the message entity     *)
(* Msg, its reply / forward transformations, merge_with, and the template   *)
(* codec to_tpl / from_tpl.                                                 *)
(*                                                                          *)
(* Representation.                                                          *)
(*   String        a sequence of atoms.  An atom is a substring that no     *)
(*                 operation of the file ever splits: a word, an e-mail     *)
(*                 address, or one of the delimiters " " "," ":" "<" ">"    *)
(*                 "\n" "\t".  "Re: x" is <<"Re", ":", " ", "x">>.          *)
(*   Option<T>     None = <<>>, Some(x) = <<x>>.                            *)
(*   Result<T>     Err  = <<>>, Ok(x)   = <<x>>.                            *)
(*   Vec<T>        a sequence.                                              *)
(*   Addr          [name : Option<String>, email : atom] (lettre Mailbox).  *)
(*   Part          [kind : {"TextPlain","TextHtml","Binary"}, content].     *)
(***************************************************************************)
EXTENDS Integers, Sequences, FiniteSets, TLC

VARIABLES
    msg,      \* the message entity the program currently holds
    orig,     \* the entity as it was before the last operation
    account,  \* the Account configuration: address string and signature
    last,     \* the last operation and its arguments
    out,      \* Result<Msg> returned by the last operation
    tpl,      \* the String last rendered by to_tpl
    nops,     \* number of operations applied so far
    panicked, \* the last operation ended in a panic instead of returning
    ed        \* the edit_with_editor call in progress

vars == <<msg, orig, account, last, out, tpl, nops, panicked, ed>>

----------------------------------------------------------------------------
(* Bounds of the model *)

MaxAddrs == 2
MaxOps == 2
MaxParts == 2
MaxHdrs == 2

----------------------------------------------------------------------------
(* Option / Result *)

None == <<>>
Some(x) == <<x>>
IsSome(o) == o # <<>>
IsNone(o) == o = <<>>
Err == <<>>
Ok(x) == <<x>>
IsOk(r) == r # <<>>

----------------------------------------------------------------------------
(* Strings as sequences of atoms *)

NL == "\n"
SP == " "
TAB == "\t"
Whitespace == {SP, NL, TAB}

starts_with(s, p) == Len(s) >= Len(p) /\ SubSeq(s, 1, Len(p)) = p

RECURSIVE trim_start(_)
trim_start(s) ==
    IF s # <<>> /\ Head(s) \in Whitespace THEN trim_start(Tail(s)) ELSE s

RECURSIVE trim_end(_)
trim_end(s) ==
    IF s # <<>> /\ s[Len(s)] \in Whitespace
    THEN trim_end(SubSeq(s, 1, Len(s) - 1)) ELSE s

trim(s) == trim_end(trim_start(s))

\* index of the first occurrence of atom c in s, 0 when there is none
RECURSIVE find_from(_, _, _)
find_from(s, c, i) ==
    IF i > Len(s) THEN 0
    ELSE IF s[i] = c THEN i ELSE find_from(s, c, i + 1)

find(s, c) == find_from(s, c, 1)

\* str::split(c): always at least one piece, "" splits into [""]
RECURSIVE split(_, _)
split(s, c) ==
    LET i == find(s, c) IN
    IF i = 0 THEN <<s>>
    ELSE <<SubSeq(s, 1, i - 1)>> \o split(SubSeq(s, i + 1, Len(s)), c)

\* [String]::join(glue)
RECURSIVE join(_, _)
join(ss, glue) ==
    IF ss = <<>> THEN <<>>
    ELSE IF Len(ss) = 1 THEN ss[1]
    ELSE ss[1] \o glue \o join(Tail(ss), glue)

RECURSIVE filter_ne(_, _)
filter_ne(xs, x) ==
    IF xs = <<>> THEN <<>>
    ELSE IF Head(xs) # x THEN <<Head(xs)>> \o filter_ne(Tail(xs), x)
    ELSE filter_ne(Tail(xs), x)

----------------------------------------------------------------------------
(* Addresses: type Addr = lettre::message::Mailbox *)

\* the atoms the address grammar accepts as an e-mail address
EmailAtoms == {"alice@x", "bob@x", "carol@x"}

Addr(name, email) == [name |-> name, email |-> email]

\* <Address as FromStr>: no surrounding blanks, exactly one address
address_from_str(s) ==
    IF Len(s) = 1 /\ s[1] \in EmailAtoms THEN Ok(s[1]) ELSE Err

\* <Mailbox as FromStr>: "name <email>" or "email"
mailbox_from_str(s) ==
    LET open == find(s, "<")
        close == find(s, ">")
    IN  IF open # 0 /\ close # 0 /\ open < close
        THEN LET name == trim(SubSeq(s, 1, open - 1))
                 addr == address_from_str(SubSeq(s, open + 1, close - 1))
             IN  IF IsOk(addr)
                 THEN Ok(Addr(IF name = <<>> THEN None ELSE Some(name), addr[1]))
                 ELSE Err
        ELSE IF open # 0 THEN Err
        ELSE LET addr == address_from_str(s)
             IN  IF IsOk(addr) THEN Ok(Addr(None, addr[1])) ELSE Err

\* <Mailbox as Display>: "name <email>" when a non-blank name is set
addr_to_string(addr) ==
    IF IsSome(addr.name) /\ trim(addr.name[1]) # <<>>
    THEN trim(addr.name[1]) \o <<SP, "<", addr.email, ">">>
    ELSE <<addr.email>>

\* addrs.iter().map(|addr| addr.to_string()).collect::<Vec<_>>().join(", ")
RECURSIVE addrs_to_strings(_)
addrs_to_strings(addrs) ==
    IF addrs = <<>> THEN <<>>
    ELSE <<addr_to_string(Head(addrs))>> \o addrs_to_strings(Tail(addrs))

addrs_join(addrs) == join(addrs_to_strings(addrs), <<",", SP>>)

parse_addr(raw_addr) == mailbox_from_str(trim(raw_addr))

\* Result<Option<Vec<Addr>>>: the first piece that fails to parse fails the whole
RECURSIVE parse_addr_pieces(_)
parse_addr_pieces(pieces) ==
    IF pieces = <<>> THEN Ok(<<>>)
    ELSE LET a == parse_addr(Head(pieces))
             rest == parse_addr_pieces(Tail(pieces))
         IN  IF IsOk(a) /\ IsOk(rest) THEN Ok(<<a[1]>> \o rest[1]) ELSE Err

parse_addrs(raw_addrs) ==
    LET addrs == parse_addr_pieces(split(raw_addrs, ","))
    IN  IF ~IsOk(addrs) THEN Err
        ELSE Ok(IF addrs[1] = <<>> THEN None ELSE Some(addrs[1]))

----------------------------------------------------------------------------
(* Parts *)

TextPlain(content) == [kind |-> "TextPlain", content |-> content]
TextHtml(content) == [kind |-> "TextHtml", content |-> content]
Binary(filename, mime) ==
    [kind |-> "Binary", filename |-> filename, mime |-> mime, content |-> <<filename>>]

RECURSIVE retain_not(_, _)
retain_not(parts, kind) ==
    IF parts = <<>> THEN <<>>
    ELSE IF Head(parts).kind # kind
         THEN <<Head(parts)>> \o retain_not(Tail(parts), kind)
         ELSE retain_not(Tail(parts), kind)

RECURSIVE only_kind(_, _)
only_kind(parts, kind) ==
    IF parts = <<>> THEN <<>>
    ELSE IF Head(parts).kind = kind
         THEN <<Head(parts)>> \o only_kind(Tail(parts), kind)
         ELSE only_kind(Tail(parts), kind)

\* the fold of lines 83-101: one accumulator per text kind, glued by a blank
\* line once the accumulator is not empty
RECURSIVE fold_kind(_, _, _)
fold_kind(parts, kind, acc) ==
    IF parts = <<>> THEN acc
    ELSE IF Head(parts).kind = kind
         THEN fold_kind(Tail(parts), kind,
                        acc \o (IF acc = <<>> THEN <<>> ELSE <<NL, NL>>)
                            \o Head(parts).content)
         ELSE fold_kind(Tail(parts), kind, acc)

\* end of the whitespace run that starts at i
RECURSIVE ws_run_end(_, _)
ws_run_end(s, i) ==
    IF i < Len(s) /\ s[i + 1] \in Whitespace THEN ws_run_end(s, i + 1) ELSE i

RECURSIVE count_nl(_, _, _)
count_nl(s, i, j) ==
    IF i > j THEN 0 ELSE (IF s[i] = NL THEN 1 ELSE 0) + count_nl(s, i + 1, j)

\* Regex (\r?\n\s*){2,} replaced by "\n\n"
RECURSIVE merge_new_lines_from(_, _)
merge_new_lines_from(s, i) ==
    IF i > Len(s) THEN <<>>
    ELSE IF s[i] = NL /\ count_nl(s, i, ws_run_end(s, i)) >= 2
         THEN <<NL, NL>> \o merge_new_lines_from(s, ws_run_end(s, i) + 1)
         ELSE <<s[i]>> \o merge_new_lines_from(s, i + 1)

merge_new_lines(s) == merge_new_lines_from(s, 1)

\* Regex (\t|&nbsp;) / \t replaced by " "
RECURSIVE replace_atoms(_, _, _)
replace_atoms(s, from, to) ==
    IF s = <<>> THEN <<>>
    ELSE <<IF Head(s) \in from THEN to ELSE Head(s)>> \o replace_atoms(Tail(s), from, to)

RECURSIVE sp_run_end(_, _)
sp_run_end(s, i) ==
    IF i < Len(s) /\ s[i + 1] = SP THEN sp_run_end(s, i + 1) ELSE i

\* Regex " {2,}" replaced by two spaces
RECURSIVE merge_spaces_from(_, _)
merge_spaces_from(s, i) ==
    IF i > Len(s) THEN <<>>
    ELSE IF s[i] = SP /\ sp_run_end(s, i) > i
         THEN <<SP, SP>> \o merge_spaces_from(s, sp_run_end(s, i) + 1)
         ELSE <<s[i]>> \o merge_spaces_from(s, i + 1)

merge_spaces(s) == merge_spaces_from(s, 1)

\* ammonia with an empty tag set: every markup tag is dropped
TagAtoms == {"<p>", "</p>", "<b>", "</b>"}

RECURSIVE strip_tags(_)
strip_tags(s) ==
    IF s = <<>> THEN <<>>
    ELSE IF Head(s) \in TagAtoms THEN strip_tags(Tail(s))
    ELSE <<Head(s)>> \o strip_tags(Tail(s))

RECURSIVE decode_html_entities(_)
decode_html_entities(s) ==
    IF s = <<>> THEN <<>>
    ELSE <<IF Head(s) = "&amp;" THEN "&" ELSE Head(s)>> \o decode_html_entities(Tail(s))

fold_text_plain_parts(self) ==
    LET plain == fold_kind(self.parts, "TextPlain", <<>>)
        html == fold_kind(self.parts, "TextHtml", <<>>)
    IN  IF plain = <<>>
        THEN decode_html_entities(
                 merge_spaces(
                     replace_atoms(merge_new_lines(strip_tags(html)),
                                   {TAB, "&nbsp;"}, SP)))
        ELSE merge_spaces(replace_atoms(merge_new_lines(plain), {TAB}, SP))

\* Regex (\r?\n){2,} replaced by "\n\n"
RECURSIVE nl_run_end(_, _)
nl_run_end(s, i) ==
    IF i < Len(s) /\ s[i + 1] = NL THEN nl_run_end(s, i + 1) ELSE i

RECURSIVE merge_bare_new_lines_from(_, _)
merge_bare_new_lines_from(s, i) ==
    IF i > Len(s) THEN <<>>
    ELSE IF s[i] = NL /\ nl_run_end(s, i) > i
         THEN <<NL, NL>> \o merge_bare_new_lines_from(s, nl_run_end(s, i) + 1)
         ELSE <<s[i]>> \o merge_bare_new_lines_from(s, i + 1)

fold_text_html_parts(self) ==
    merge_bare_new_lines_from(fold_kind(self.parts, "TextHtml", <<>>), 1)

fold_text_parts(self, text_mime) ==
    IF text_mime = "html" THEN fold_text_html_parts(self)
    ELSE fold_text_plain_parts(self)

----------------------------------------------------------------------------
(* The message entity *)

\* #[derive(Default)] for Msg
MsgDefault ==
    [id |-> 0, flags |-> {}, subject |-> <<>>,
     from |-> None, reply_to |-> None, to |-> None, cc |-> None, bcc |-> None,
     in_reply_to |-> None, message_id |-> None, date |-> None,
     parts |-> <<>>, encrypt |-> FALSE]

\* chrono formatting of the internal date: the date rendered in format fmt
format_date(date, fmt) == <<date[1], fmt>>

\* the signature delimiter line of the account configuration
DEFAULT_SIG_DELIM == <<"--", SP>>

\* str::lines(): pieces between "\n", a final empty piece is not a line
lines(s) ==
    LET pieces == split(s, NL)
    IN  IF pieces[Len(pieces)] = <<>> THEN SubSeq(pieces, 1, Len(pieces) - 1)
        ELSE pieces

\* the quoting loop of lines 238-248
RECURSIVE quote_lines(_, _)
quote_lines(ls, glue) ==
    IF ls = <<>> \/ Head(ls) = DEFAULT_SIG_DELIM THEN <<>>
    ELSE glue \o <<">">>
              \o (IF starts_with(Head(ls), <<">">>) THEN <<>> ELSE <<SP>>)
              \o Head(ls)
              \o quote_lines(Tail(ls), <<NL>>)

\* lines 213-216
reply_subject_always(subject) == <<"Re", ":", SP>> \o subject

reply_subject(subject) ==
    IF ~starts_with(subject, <<"Re", ":">>) THEN <<"Re", ":", SP>> \o subject
    ELSE subject

\* lines 284-287
forward_subject_always(subject) == <<"Fwd", ":", SP>> \o subject

forward_subject(subject) ==
    IF ~starts_with(subject, <<"Fwd", ":">>) THEN <<"Fwd", ":", SP>> \o subject
    ELSE subject

into_reply(self, all, acct) ==
    LET parsed == mailbox_from_str(acct.address) IN
    IF ~IsOk(parsed) THEN Err
    ELSE
    LET account_addr == parsed[1]
        \* Message-Id, then In-Reply-To read from the field just cleared
        m1 == [self EXCEPT !.message_id = None]
        m2 == [m1 EXCEPT !.in_reply_to = m1.message_id]
        \* From
        m3 == [m2 EXCEPT !.from = Some(<<account_addr>>)]
        \* To: reply_to, else the from just assigned
        src == IF IsSome(m3.reply_to) THEN m3.reply_to ELSE m3.from
        addrs == IF IsSome(src) THEN Some(filter_ne(src[1], account_addr)) ELSE None
        m4 == [m3 EXCEPT !.to =
                  IF all THEN addrs
                  ELSE IF IsSome(addrs) /\ addrs[1] # <<>>
                       THEN Some(<<addrs[1][1]>>) ELSE None]
        \* Cc & Bcc
        m5 == IF ~all THEN [m4 EXCEPT !.cc = None, !.bcc = None] ELSE m4
        \* Subject
        m6 == [m5 EXCEPT !.subject = reply_subject(m5.subject)]
        \* Body
        date == IF IsSome(m6.date) THEN format_date(m6.date, "%d %b %Y, at %H:%M")
                ELSE <<"unknown date">>
        first == IF IsSome(src) /\ src[1] # <<>> THEN Some(src[1][1]) ELSE None
        sender == IF IsSome(first)
                  THEN (IF IsSome(first[1].name) THEN first[1].name[1]
                        ELSE <<first[1].email>>)
                  ELSE <<"unknown sender">>
        content == <<NL, NL, "On", SP>> \o date \o <<",", SP>> \o sender
                       \o <<SP, "wrote", ":", NL>>
                       \o quote_lines(lines(trim(fold_text_parts(m6, "plain"))), <<>>)
    IN  Ok([m6 EXCEPT !.parts = <<TextPlain(content)>>])

replace_text_plain_parts_with_append(parts, content) ==
    parts \o <<TextPlain(content)>>

\* Parts::replace_text_plain_parts_with
replace_text_plain_parts_with(parts, content) ==
    retain_not(parts, "TextPlain") \o <<TextPlain(content)>>

into_forward(self, acct) ==
    LET parsed == mailbox_from_str(acct.address) IN
    IF ~IsOk(parsed) THEN Err
    ELSE
    LET account_addr == parsed[1]
        prev_subject == self.subject
        prev_date == self.date
        prev_from == IF IsSome(self.reply_to) THEN self.reply_to ELSE self.from
        prev_to == self.to
        m1 == [self EXCEPT !.message_id = None, !.in_reply_to = None,
                           !.from = Some(<<account_addr>>), !.to = Some(<<>>),
                           !.cc = None, !.bcc = None]
        m2 == [m1 EXCEPT !.subject = forward_subject(m1.subject)]
        content ==
            <<NL, NL, "-------- Forwarded Message --------", NL>>
            \o <<"Subject", ":", SP>> \o prev_subject \o <<NL>>
            \o (IF IsSome(prev_date)
                THEN <<"Date", ":", SP>> \o format_date(prev_date, "rfc2822") \o <<NL>>
                ELSE <<>>)
            \o (IF IsSome(prev_from)
                THEN <<"From", ":", SP>> \o addrs_join(prev_from[1]) \o <<NL>>
                ELSE <<>>)
            \o (IF IsSome(prev_to)
                THEN <<"To", ":", SP>> \o addrs_join(prev_to[1]) \o <<NL>>
                ELSE <<>>)
            \o <<NL>>
            \o fold_text_parts(m2, "plain")
    IN  Ok([m2 EXCEPT !.parts = replace_text_plain_parts_with(m2.parts, content)])

----------------------------------------------------------------------------
(* merge_with *)

\* lines 444-458, one header list: the overlay wins when it is Some
merge_opt_always(mine, theirs) == theirs

merge_opt(mine, theirs) == IF IsSome(theirs) THEN theirs ELSE mine

\* lines 465-475, one overlay part
merge_part_push(parts, part) == parts \o <<part>>

merge_part(parts, part) ==
    IF part.kind = "Binary" THEN parts \o <<part>>
    ELSE retain_not(parts, part.kind) \o <<part>>

RECURSIVE merge_parts(_, _)
merge_parts(parts, others) ==
    IF others = <<>> THEN parts
    ELSE merge_parts(merge_part(parts, Head(others)), Tail(others))

merge_with(self, other) ==
    [self EXCEPT
        !.from = merge_opt(self.from, other.from),
        !.to = merge_opt(self.to, other.to),
        !.cc = merge_opt(self.cc, other.cc),
        !.bcc = merge_opt(self.bcc, other.bcc),
        !.subject = IF other.subject # <<>> THEN other.subject ELSE self.subject,
        !.parts = merge_parts(self.parts, other.parts)]

----------------------------------------------------------------------------
(* Template codec *)

\* TplOverride::default()
NoOverride ==
    [subject |-> None, from |-> None, to |-> None, cc |-> None, bcc |-> None,
     body |-> None, sig |-> None]

strs_join(strs) == join(strs, <<",", SP>>)

ContentTypeLine ==
    <<"Content-Type", ":", SP, "text/plain;", SP, "charset=utf-8", NL>>

\* lines 484-486
tpl_in_reply_to(self) ==
    IF IsSome(self.in_reply_to)
    THEN <<"In-Reply-To", ":", SP>> \o self.in_reply_to[1] \o <<NL>>
    ELSE <<>>

\* lines 488-494
tpl_from(self, opts, acct) ==
    <<"From", ":", SP>>
    \o (IF IsSome(opts.from) THEN strs_join(opts.from[1]) ELSE acct.address)
    \o <<NL>>

\* lines 496-507
tpl_to(self, opts) ==
    <<"To", ":", SP>>
    \o (IF IsSome(opts.to) THEN strs_join(opts.to[1])
        ELSE IF IsSome(self.to) THEN addrs_join(self.to[1])
        ELSE <<>>)
    \o <<NL>>

\* lines 509-533, for Cc and for Bcc
tpl_opt_addrs(key, override, field) ==
    IF IsSome(override) THEN <<key, ":", SP>> \o strs_join(override[1]) \o <<NL>>
    ELSE IF IsSome(field) THEN <<key, ":", SP>> \o addrs_join(field[1]) \o <<NL>>
    ELSE <<>>

\* lines 535-539
tpl_subject(self, opts) ==
    <<"Subject", ":", SP>>
    \o (IF IsSome(opts.subject) THEN opts.subject[1] ELSE self.subject)
    \o <<NL>>

\* lines 544-560
tpl_body(self, opts, acct) ==
    (IF IsSome(opts.body) THEN opts.body[1] ELSE fold_text_plain_parts(self))
    \o (IF IsSome(opts.sig) THEN <<NL, NL>> \o opts.sig[1]
        ELSE IF IsSome(acct.sig) THEN <<NL, NL>> \o acct.sig[1]
        ELSE <<>>)
    \o <<NL>>

tpl_headers_subject_first(self, opts, acct) ==
    ContentTypeLine
    \o tpl_subject(self, opts)
    \o tpl_in_reply_to(self)
    \o tpl_from(self, opts, acct)
    \o tpl_to(self, opts)
    \o tpl_opt_addrs("Cc", opts.cc, self.cc)
    \o tpl_opt_addrs("Bcc", opts.bcc, self.bcc)

\* lines 482-539
tpl_headers(self, opts, acct) ==
    ContentTypeLine
    \o tpl_in_reply_to(self)
    \o tpl_from(self, opts, acct)
    \o tpl_to(self, opts)
    \o tpl_opt_addrs("Cc", opts.cc, self.cc)
    \o tpl_opt_addrs("Bcc", opts.bcc, self.bcc)
    \o tpl_subject(self, opts)

to_tpl(self, opts, acct) ==
    tpl_headers(self, opts, acct) \o <<NL>> \o tpl_body(self, opts, acct)

\* str::to_lowercase on the header names the templates use
LowerMap ==
    [a \in {"Message-Id", "In-Reply-To", "Subject", "From", "To", "Reply-To",
            "Cc", "Bcc", "Content-Type", "Content-Transfer-Encoding", "X-Other",
            "Base64"} |->
        CASE a = "Message-Id" -> "message-id"
          [] a = "In-Reply-To" -> "in-reply-to"
          [] a = "Subject" -> "subject"
          [] a = "From" -> "from"
          [] a = "To" -> "to"
          [] a = "Reply-To" -> "reply-to"
          [] a = "Cc" -> "cc"
          [] a = "Bcc" -> "bcc"
          [] a = "Content-Type" -> "content-type"
          [] a = "Content-Transfer-Encoding" -> "content-transfer-encoding"
          [] a = "X-Other" -> "x-other"
          [] a = "Base64" -> "base64"]

RECURSIVE to_lowercase(_)
to_lowercase(s) ==
    IF s = <<>> THEN <<>>
    ELSE <<IF Head(s) \in DOMAIN LowerMap THEN LowerMap[Head(s)] ELSE Head(s)>>
         \o to_lowercase(Tail(s))

\* mailparse::parse_header, end of the value that starts at i: the first "\n"
\* that no blank or tab follows (or the end of the text)
RECURSIVE header_value_end(_, _)
header_value_end(s, i) ==
    IF i > Len(s) THEN Len(s)
    ELSE IF s[i] = NL /\ ~(i < Len(s) /\ s[i + 1] \in {SP, TAB}) THEN i - 1
    ELSE header_value_end(s, i + 1)

RECURSIVE skip_spaces(_, _)
skip_spaces(s, i) ==
    IF i <= Len(s) /\ s[i] = SP THEN skip_spaces(s, i + 1) ELSE i

\* mailparse::parse_headers from position i: Result<(headers, body start)>.
\* A header is [key, val]; the header block ends at an empty line.
RECURSIVE parse_headers(_, _, _)
parse_headers(s, i, acc) ==
    IF i > Len(s) THEN Ok([headers |-> acc, body |-> i])
    ELSE IF s[i] = NL THEN Ok([headers |-> acc, body |-> i + 1])
    ELSE IF s[i] = SP THEN Err
    ELSE LET colon == find_from(s, ":", i)
             nl == find_from(s, NL, i)
         IN  IF nl # 0 /\ (colon = 0 \/ nl < colon) THEN Err
             ELSE IF colon = 0
                  THEN Ok([headers |-> Append(acc, [key |-> SubSeq(s, i, Len(s)),
                                                     val |-> <<>>]),
                           body |-> Len(s) + 1])
             ELSE LET start == skip_spaces(s, colon + 1)
                      end == header_value_end(s, start)
                  IN  parse_headers(s, end + 2,
                          Append(acc, [key |-> SubSeq(s, i, colon - 1),
                                       val |-> SubSeq(s, start, end)]))

\* base64 text and what it decodes to
Base64Map == [a \in {"SGk="} |-> "Hi"]

RECURSIVE base64_decode(_)
base64_decode(s) ==
    IF s = <<>> THEN Ok(<<>>)
    ELSE IF Head(s) \in {SP, NL, TAB} THEN base64_decode(Tail(s))
    ELSE IF Head(s) \notin DOMAIN Base64Map THEN Err
    ELSE LET rest == base64_decode(Tail(s))
         IN  IF IsOk(rest) THEN Ok(<<Base64Map[Head(s)]>> \o rest[1]) ELSE Err

\* value of the first header named key (compared in lower case), if any
RECURSIVE get_first_value(_, _)
get_first_value(headers, key) ==
    IF headers = <<>> THEN None
    ELSE IF to_lowercase(Head(headers).key) = <<key>> THEN Some(Head(headers).val)
    ELSE get_first_value(Tail(headers), key)

\* ParsedMail::get_body_raw of a single-part text: the body with its
\* Content-Transfer-Encoding undone, Result<String>
get_body_raw(headers, body) ==
    LET encoding == get_first_value(headers, "content-transfer-encoding")
    IN  IF IsSome(encoding) /\ to_lowercase(trim(encoding[1])) = <<"base64">>
        THEN base64_decode(body)
        ELSE Ok(body)

\* address headers that fail to parse are skipped
from_tpl_header_lenient(m, header) ==
    LET key == to_lowercase(header.key)
        val == trim(header.val)
        addrs == parse_addrs(val)
    IN  IF key = <<"message-id">> THEN Ok([m EXCEPT !.message_id = Some(val)])
        ELSE IF key = <<"in-reply-to">> THEN Ok([m EXCEPT !.in_reply_to = Some(val)])
        ELSE IF key = <<"subject">> THEN Ok([m EXCEPT !.subject = val])
        ELSE IF key \in {<<"from">>, <<"to">>, <<"reply-to">>, <<"cc">>, <<"bcc">>}
                /\ IsOk(addrs)
             THEN Ok(CASE key = <<"from">> -> [m EXCEPT !.from = addrs[1]]
                       [] key = <<"to">> -> [m EXCEPT !.to = addrs[1]]
                       [] key = <<"reply-to">> -> [m EXCEPT !.reply_to = addrs[1]]
                       [] key = <<"cc">> -> [m EXCEPT !.cc = addrs[1]]
                       [] key = <<"bcc">> -> [m EXCEPT !.bcc = addrs[1]])
        ELSE Ok(m)

\* lines 587-610, one header applied to the entity being built: Result<Msg>
from_tpl_header(m, header) ==
    LET key == to_lowercase(header.key)
        val == trim(header.val)
        addrs == parse_addrs(val)
    IN  IF key = <<"message-id">> THEN Ok([m EXCEPT !.message_id = Some(val)])
        ELSE IF key = <<"in-reply-to">> THEN Ok([m EXCEPT !.in_reply_to = Some(val)])
        ELSE IF key = <<"subject">> THEN Ok([m EXCEPT !.subject = val])
        ELSE IF key \in {<<"from">>, <<"to">>, <<"reply-to">>, <<"cc">>, <<"bcc">>}
             THEN IF ~IsOk(addrs) THEN Err
                  ELSE Ok(CASE key = <<"from">> -> [m EXCEPT !.from = addrs[1]]
                            [] key = <<"to">> -> [m EXCEPT !.to = addrs[1]]
                            [] key = <<"reply-to">> -> [m EXCEPT !.reply_to = addrs[1]]
                            [] key = <<"cc">> -> [m EXCEPT !.cc = addrs[1]]
                            [] key = <<"bcc">> -> [m EXCEPT !.bcc = addrs[1]])
        ELSE Ok(m)

RECURSIVE from_tpl_headers(_, _)
from_tpl_headers(m, headers) ==
    IF headers = <<>> THEN Ok(m)
    ELSE LET r == from_tpl_header(m, Head(headers))
         IN  IF IsOk(r) THEN from_tpl_headers(r[1], Tail(headers)) ELSE Err

from_tpl(text) ==
    LET parsed_msg == parse_headers(text, 1, <<>>) IN
    IF ~IsOk(parsed_msg) THEN Err
    ELSE LET r == from_tpl_headers(MsgDefault, parsed_msg[1].headers)
             body == get_body_raw(parsed_msg[1].headers,
                                  SubSeq(text, parsed_msg[1].body, Len(text)))
         IN  IF ~IsOk(r) \/ ~IsOk(body) THEN Err
             ELSE Ok([r[1] EXCEPT !.parts = Append(r[1].parts, TextPlain(body[1]))])

----------------------------------------------------------------------------
(* Inputs *)

alice == Addr(Some(<<"Alice">>), "alice@x")
bob == Addr(None, "bob@x")
carol == Addr(None, "carol@x")
AddrPool == {alice, bob, carol}

\* address lists without repetition, up to n addresses
AddrLists(n) ==
    {l \in UNION {[1..k -> AddrPool] : k \in 0..n} :
        \A i, j \in DOMAIN l : i # j => l[i] # l[j]}

OptAddrLists(n) == {None} \cup {Some(l) : l \in AddrLists(n)}

acct_bob == [address |-> <<"bob@x">>, sig |-> None]
acct_bob_sig == [address |-> <<"bob@x">>, sig |-> Some(<<"Bob">>)]
acct_alice == [address |-> <<"Alice", SP, "<", "alice@x", ">">>, sig |-> None]
acct_bad == [address |-> <<"bob">>, sig |-> None]

Subjects ==
    {<<>>, <<"x">>, <<"Re", ":", SP, "x">>, <<"Re", ":", "x">>,
     <<"Re", ":", SP, "Re", ":", SP, "x">>, <<"re", ":", SP, "x">>,
     <<"Fwd", ":", SP, "x">>, <<"Fwd", ":", "x">>,
     <<"Fwd", ":", SP, "Fwd", ":", SP, "x">>}

PartsPool ==
    {<<>>,
     <<TextPlain(<<"Hi">>)>>,
     <<TextHtml(<<"<p>", "Yo", "</p>">>)>>,
     <<TextPlain(<<"Hi", NL, NL, NL, "you", SP, SP, SP, "there">>),
       TextHtml(<<"<p>", "Yo", "</p>">>),
       Binary("f.pdf", "application/pdf"),
       TextPlain(<<">", "old", NL, "--", SP, NL, "Al">>)>>}

\* a fetched message (TryFrom<(&Account, &Fetch)>, lines 816-830)
Fetched ==
    [MsgDefault EXCEPT
        !.id = 1, !.flags = {"Seen"}, !.subject = <<"x">>,
        !.from = Some(<<alice>>), !.to = Some(<<bob>>),
        !.in_reply_to = Some(<<"<id0>">>), !.message_id = Some(<<"<id1>">>),
        !.date = Some("d1"),
        !.parts = <<TextPlain(<<"Hi">>), Binary("f.pdf", "application/pdf")>>]

ReplyMsgs ==
    {[Fetched EXCEPT !.from = f, !.reply_to = r, !.message_id = mid, !.cc = c, !.bcc = c] :
        f \in OptAddrLists(MaxAddrs), r \in OptAddrLists(MaxAddrs),
        mid \in {None, Some(<<"<id1>">>)}, c \in {None, Some(<<carol>>)}}
    \cup
    {[Fetched EXCEPT !.subject = s, !.parts = p, !.date = d] :
        s \in Subjects, p \in PartsPool, d \in {None, Some("d1")}}

ReplyAccounts == {acct_bob, acct_alice, acct_bad}

----------------------------------------------------------------------------
(* State machine *)

\* env: what the collaborators answered during the operation
OpEnv(op, all, other, opts, env) ==
    [op |-> op, all |-> all, other |-> other, opts |-> opts, env |-> env]

Op(op, all, other, opts) == OpEnv(op, all, other, opts, <<>>)

\* no edit_with_editor call in progress
EdIdle == [pc |-> "idle", draft |-> FALSE, choice |-> "none", log |-> <<>>, ret |-> "none"]

InitWith(msgs, accts) ==
    /\ panicked = FALSE
    /\ ed = EdIdle
    /\ msg \in msgs
    /\ orig = msg
    /\ account \in accts
    /\ last = Op("init", FALSE, MsgDefault, NoOverride)
    /\ out = Err
    /\ tpl = <<>>
    /\ nops = 0

\* msg = msg.into_reply(all, account)?  -- on Err the caller is left without
\* a new entity
IntoReply(all) ==
    /\ nops < MaxOps
    /\ out' = into_reply(msg, all, account)
    /\ msg' = IF IsOk(out') THEN out'[1] ELSE msg
    /\ orig' = msg
    /\ last' = Op("into_reply", all, MsgDefault, NoOverride)
    /\ nops' = nops + 1
    /\ UNCHANGED <<account, tpl, panicked, ed>>

IntoForward ==
    /\ nops < MaxOps
    /\ out' = into_forward(msg, account)
    /\ msg' = IF IsOk(out') THEN out'[1] ELSE msg
    /\ orig' = msg
    /\ last' = Op("into_forward", FALSE, MsgDefault, NoOverride)
    /\ nops' = nops + 1
    /\ UNCHANGED <<account, tpl, panicked, ed>>

InitReply == InitWith(ReplyMsgs, ReplyAccounts)

NextReply ==
    \/ \E all \in BOOLEAN : IntoReply(all)
    \/ IntoForward

SpecReply == InitReply /\ [][NextReply]_vars

----------------------------------------------------------------------------
(* merge_with: inputs and specification *)

PartSeqs(alphabet, n) == UNION {[1..k -> alphabet] : k \in 0..n}

SelfPartAlphabet ==
    {TextPlain(<<"old">>), TextHtml(<<"<p>", "old", "</p>">>),
     Binary("e.png", "image/png"), Binary("f.pdf", "application/pdf")}

OverlayPartAlphabet ==
    {TextPlain(<<"new">>), TextPlain(<<"newer">>),
     TextHtml(<<"<p>", "new", "</p>">>), TextHtml(<<"<b>", "newer", "</b>">>),
     Binary("f.pdf", "application/pdf")}

MergeSelves ==
    {[Fetched EXCEPT !.from = f, !.to = t, !.cc = c, !.bcc = b, !.subject = s] :
        f \in {None, Some(<<alice>>)},
        t \in {None, Some(<<>>), Some(<<bob>>)},
        c \in {None, Some(<<carol>>)},
        b \in {None, Some(<<alice>>)},
        s \in {<<>>, <<"x">>}}
    \cup
    {[Fetched EXCEPT !.parts = p] : p \in PartSeqs(SelfPartAlphabet, MaxParts)}

\* overlays are entities built by from_tpl, or any other Msg
MergeOverlays ==
    {[MsgDefault EXCEPT !.from = f, !.to = t, !.cc = c, !.bcc = b, !.subject = s,
                        !.parts = <<TextPlain(<<"new">>)>>] :
        f \in {None, Some(<<>>), Some(<<bob>>)},
        t \in {None, Some(<<>>), Some(<<carol>>)},
        c \in {None, Some(<<>>), Some(<<alice, bob>>)},
        b \in {None, Some(<<>>), Some(<<carol>>)},
        s \in {<<>>, <<"y">>}}
    \cup
    {[MsgDefault EXCEPT !.parts = p] : p \in PartSeqs(OverlayPartAlphabet, MaxParts)}

\* self.merge_with(other)
MergeWith(other) ==
    /\ nops = 0
    /\ msg' = merge_with(msg, other)
    /\ orig' = msg
    /\ last' = Op("merge_with", FALSE, other, NoOverride)
    /\ out' = Ok(msg')
    /\ nops' = nops + 1
    /\ UNCHANGED <<account, tpl, panicked, ed>>

InitMerge == InitWith(MergeSelves, {acct_bob})

NextMerge == \E other \in MergeOverlays : MergeWith(other)

SpecMerge == InitMerge /\ [][NextMerge]_vars

----------------------------------------------------------------------------
(* Template codec: inputs and specification *)

TplMsgs ==
    {[Fetched EXCEPT !.from = f, !.to = t, !.cc = c, !.bcc = b] :
        f \in {None, Some(<<alice>>), Some(<<bob>>)},
        t \in OptAddrLists(MaxAddrs),
        c \in {None, Some(<<>>), Some(<<carol>>), Some(<<alice, carol>>)},
        b \in {None, Some(<<bob>>)}}
    \cup
    {[Fetched EXCEPT !.subject = s, !.parts = p, !.in_reply_to = i] :
        s \in {<<>>, <<"x">>, <<"Re", ":", SP, "x">>},
        p \in PartsPool,
        i \in {None, Some(<<"<id0>">>)}}

TplAccounts == {acct_bob, acct_bob_sig}

Overrides ==
    {NoOverride,
     [NoOverride EXCEPT !.from = Some(<< <<"carol@x">> >>)],
     [NoOverride EXCEPT !.to = Some(<< <<"alice@x">>, <<"carol@x">> >>),
                        !.cc = Some(<< <<"carol@x">> >>)],
     [NoOverride EXCEPT !.bcc = Some(<< <<"alice@x">> >>),
                        !.subject = Some(<<"y">>),
                        !.body = Some(<<"Yo">>),
                        !.sig = Some(<<"Sig">>)]}

\* let tpl = self.to_tpl(opts, account)
ToTpl(opts) ==
    /\ last.op # "to_tpl"
    /\ tpl' = to_tpl(msg, opts, account)
    /\ orig' = msg
    /\ last' = Op("to_tpl", FALSE, MsgDefault, opts)
    /\ out' = Err
    /\ UNCHANGED <<msg, account, nops, panicked, ed>>

\* Msg::from_tpl(&tpl) on the template just rendered
FromTpl ==
    /\ last.op = "to_tpl"
    /\ out' = from_tpl(tpl)
    /\ last' = [last EXCEPT !.op = "from_tpl"]
    /\ UNCHANGED <<msg, orig, account, tpl, nops, panicked, ed>>

InitTpl == InitWith(TplMsgs, TplAccounts)

NextTpl ==
    \/ IntoForward
    \/ \E opts \in Overrides : ToTpl(opts)
    \/ FromTpl

SpecTpl == InitTpl /\ [][NextTpl]_vars

----------------------------------------------------------------------------
(* into_sendable_msg *)

\* lines 69-77
attachments(self) == only_kind(self.parts, "Binary")

\* the strings that parse as a lettre ContentType
ValidMimes == {"application/pdf", "image/png", "text/plain"}

\* what a call can do: return Ok(x), return Err, or panic
Returned(r) == [res |-> r, panic |-> FALSE]
Panicked == [res |-> Err, panic |-> TRUE]

RECURSIVE attachment_parts(_)
attachment_parts(atts) ==
    IF atts = <<>> THEN <<>>
    ELSE <<[ctype |-> Head(atts).mime, filename |-> Head(atts).filename,
            body |-> Head(atts).content]>>
         \o attachment_parts(Tail(atts))

\* lines 705-707: MessageBuilder::multipart fails without exactly one sender
\* or without any recipient
message_build(self, multipart) ==
    LET recipients == (IF IsSome(self.to) THEN self.to[1] ELSE <<>>)
                      \o (IF IsSome(self.cc) THEN self.cc[1] ELSE <<>>)
                      \o (IF IsSome(self.bcc) THEN self.bcc[1] ELSE <<>>)
    IN  IF self.from = None \/ Len(self.from[1]) # 1 \/ recipients = <<>> THEN Err
        ELSE Ok([message_id |-> self.message_id, subject |-> self.subject,
                 in_reply_to |-> self.in_reply_to, from |-> self.from[1],
                 to |-> IF IsSome(self.to) THEN self.to[1] ELSE <<>>,
                 body |-> multipart])

\* write_ok: fs::write of the scratch file succeeded;
\* pgp: the Result<Option<String>> that account.pgp_encrypt_file returns
into_sendable_msg(self, write_ok, pgp) ==
    LET atts == attachments(self)
        multipart ==
            [kind |-> "mixed",
             parts |-> <<[ctype |-> "text/plain", filename |-> "",
                          body |-> fold_text_plain_parts(self)]>>
                       \o attachment_parts(atts)]
    IN  IF \E i \in DOMAIN atts : atts[i].mime \notin ValidMimes THEN Returned(Err)
        ELSE IF ~self.encrypt THEN Returned(message_build(self, multipart))
        ELSE IF ~write_ok THEN Returned(Err)
        \* self.to.as_ref().unwrap().first().unwrap(), evaluated before the call
        ELSE IF self.to = None \/ self.to[1] = <<>> THEN Panicked
        ELSE IF ~IsOk(pgp) THEN Returned(Err)
        ELSE IF pgp[1] = None THEN Returned(Err)
        ELSE Returned(message_build(self,
                 [kind |-> "encrypted",
                  parts |-> <<[ctype |-> "application/pgp-encrypted", filename |-> "",
                               body |-> <<"Version", ":", SP, "1">>],
                              [ctype |-> "application/octet-stream", filename |-> "",
                               body |-> pgp[1][1]]>>]))

SendMsgs ==
    {[Fetched EXCEPT !.encrypt = e, !.to = t, !.from = f, !.parts = p] :
        e \in BOOLEAN,
        t \in OptAddrLists(MaxAddrs),
        f \in {None, Some(<<bob>>), Some(<<bob, alice>>)},
        p \in {<<TextPlain(<<"Hi">>)>>,
               <<TextPlain(<<"Hi">>), Binary("f.pdf", "application/pdf")>>,
               <<TextPlain(<<"Hi">>), Binary("f.bin", "not a mime")>>}}

PgpOutcomes == {Err, Ok(None), Ok(Some(<<"ciphertext">>))}

\* self.into_sendable_msg(account)
IntoSendableMsg(write_ok, pgp) ==
    /\ nops = 0
    /\ LET r == into_sendable_msg(msg, write_ok, pgp)
       IN  /\ out' = r.res
           /\ panicked' = r.panic
    /\ orig' = msg
    /\ last' = OpEnv("into_sendable_msg", FALSE, MsgDefault, NoOverride,
                     [write_ok |-> write_ok, pgp |-> pgp])
    /\ nops' = nops + 1
    /\ UNCHANGED <<msg, account, tpl, ed>>

InitSend == InitWith(SendMsgs, {acct_bob})

NextSend == \E write_ok \in BOOLEAN, pgp \in PgpOutcomes : IntoSendableMsg(write_ok, pgp)

SpecSend == InitSend /\ [][NextSend]_vars

----------------------------------------------------------------------------
(* from_tpl on arbitrary texts: inputs and specification *)

HeaderLines ==
    {<<"Message-Id", ":", SP, "<id1>">>,
     <<"In-Reply-To", ":", SP, "<id0>">>,
     <<"Subject", ":", SP, "x">>,
     <<"From", ":", SP, "bob@x">>,
     <<"To", ":", SP, "Alice", SP, "<", "alice@x", ">">>,
     <<"To", ":", SP>>,
     <<"to", ":", SP, "bob@x">>,
     <<"Reply-To", ":", SP, "carol@x">>,
     <<"Cc", ":", SP, "bob@x", ",", "carol@x">>,
     <<"Bcc", ":", SP, "nobody">>,
     <<"X-Other", ":", SP, "carol@x">>,
     <<"Content-Transfer-Encoding", ":", SP, "Base64">>}

Bodies == {<<>>, <<"Hi", NL, "there">>, <<"SGk=", NL>>}

RECURSIVE header_block(_)
header_block(hs) ==
    IF hs = <<>> THEN <<>> ELSE Head(hs) \o <<NL>> \o header_block(Tail(hs))

Texts ==
    {header_block(hs) \o <<NL>> \o b :
        hs \in UNION {[1..k -> HeaderLines] : k \in 0..MaxHdrs}, b \in Bodies}

\* Msg::from_tpl(&tpl) on a text that came back from the editor
FromTplText ==
    /\ nops = 0
    /\ out' = from_tpl(tpl)
    /\ last' = Op("from_tpl", FALSE, MsgDefault, NoOverride)
    /\ nops' = nops + 1
    /\ UNCHANGED <<msg, orig, account, tpl, panicked, ed>>

InitParse ==
    /\ panicked = FALSE
    /\ ed = EdIdle
    /\ msg = MsgDefault
    /\ orig = msg
    /\ account = acct_bob
    /\ last = Op("init", FALSE, MsgDefault, NoOverride)
    /\ out = Err
    /\ tpl \in Texts
    /\ nops = 0

NextParse == FromTplText

SpecParse == InitParse /\ [][NextParse]_vars

----------------------------------------------------------------------------
(* edit_with_editor: the prompt loops, one action per match arm *)

\* one call to a collaborator and whether it returned Ok
Call(name, arg, ok) == [call |-> name, arg |-> arg, ok |-> ok]

\* a sequence of calls chained with `?`: everything up to the first failure
RECURSIVE run_calls(_)
run_calls(calls) ==
    IF calls = <<>> THEN <<>>
    ELSE IF ~Head(calls).ok THEN <<Head(calls)>>
    ELSE <<Head(calls)>> \o run_calls(Tail(calls))

all_ok(log) == \A i \in DOMAIN log : log[i].ok

has_call(log, name) == \E i \in DOMAIN log : log[i].call = name

\* the draft is removed before anything is sent
send_effects_remove_first(send_ok, append_ok, remove_ok, print_ok) ==
    run_calls(<<Call("remove_local_draft", <<>>, remove_ok),
                Call("smtp.send_msg", <<>>, send_ok),
                Call("imap.append_raw_msg_with_flags",
                     [mbox |-> "sent_folder", flags |-> {"Seen"}], append_ok),
                Call("printer.print", <<>>, print_ok)>>)

\* lines 372-380, the Send arm
send_effects(send_ok, append_ok, remove_ok, print_ok) ==
    run_calls(<<Call("smtp.send_msg", <<>>, send_ok),
                Call("imap.append_raw_msg_with_flags",
                     [mbox |-> "sent_folder", flags |-> {"Seen"}], append_ok),
                Call("remove_local_draft", <<>>, remove_ok),
                Call("printer.print", <<>>, print_ok)>>)

\* lines 385-388, the LocalDraft arm
local_draft_effects(print_ok) == run_calls(<<Call("printer.print", <<>>, print_ok)>>)

\* lines 389-400, the RemoteDraft arm
remote_draft_effects(append_ok, remove_ok, print_ok) ==
    run_calls(<<Call("imap.append_raw_msg_with_flags",
                     [mbox |-> "draft_folder", flags |-> {"Seen", "Draft"}], append_ok),
                Call("remove_local_draft", <<>>, remove_ok),
                Call("printer.print", <<>>, print_ok)>>)

\* lines 401-404, the post-edit Discard arm
discard_effects(remove_ok) == run_calls(<<Call("remove_local_draft", <<>>, remove_ok)>>)

\* what the user can leave in the editor
EditedOk == <<"To", ":", SP, "carol@x", NL, "Subject", ":", SP, "y", NL, NL, "Yo", NL>>
EditedBad == <<"To", ":", SP, NL, "Subject", ":", SP, "y", NL, NL, "Yo", NL>>

\* editor::open_with_tpl(tpl): Result<String>, the text as the user left it
open_with_tpl(t) == {Err, Ok(t), Ok(EditedOk), Ok(EditedBad)}

\* editor::open_with_draft(): Result<String>, the draft file after editing
open_with_draft == {Err, Ok(EditedOk), Ok(EditedBad)}

\* lines 324-328 past the editor call (and lines 350-351, the same two steps
\* on the draft), given what the editor returned: Result<Msg>
_edit_with_editor(edited) ==
    IF ~IsOk(edited) THEN Err ELSE from_tpl(edited[1])

\* the calls behind that result
edit_log(edited, r) ==
    IF ~IsOk(edited) THEN <<Call("editor", <<>>, FALSE)>>
    ELSE <<Call("editor", <<>>, TRUE), Call("Msg::from_tpl", <<>>, IsOk(r))>>

\* self.merge_with(<edited>?) followed by the post-edit loop, or the error
\* returned by `?`; a successful editor run leaves a local draft
EditThenPrompt(choice, edited) ==
    \E r \in {_edit_with_editor(edited)} :
        /\ nops < MaxOps
        /\ nops' = nops + 1
        /\ msg' = IF IsOk(r) THEN merge_with(msg, r[1]) ELSE msg
        /\ ed' = [pc |-> IF IsOk(r) THEN "post" ELSE "done",
                  draft |-> ed.draft \/ IsOk(edited),
                  choice |-> choice,
                  log |-> edit_log(edited, r),
                  ret |-> IF IsOk(r) THEN "none" ELSE "err"]

\* the arm ran its calls and left the loop: break, or the error returned by `?`
Leave(choice, log) ==
    /\ ed' = [pc |-> "done",
              draft |-> ed.draft /\ ~\E i \in DOMAIN log :
                                       log[i].call = "remove_local_draft" /\ log[i].ok,
              choice |-> choice,
              log |-> log,
              ret |-> IF all_ok(log) THEN "ok" ELSE "err"]
    /\ UNCHANGED <<msg, nops>>

\* lines 344-345 and 366-368: draft.exists(), and the first edit when it does not
EditStart(exists) ==
    /\ ed.pc = "idle"
    /\ IF exists
       THEN /\ ed' = [ed EXCEPT !.pc = "pre", !.draft = TRUE, !.choice = "start"]
            /\ UNCHANGED <<msg, nops>>
       ELSE \E edited \in open_with_tpl(to_tpl(msg, NoOverride, account)) :
                EditThenPrompt("start", edited)
    /\ orig' = msg
    /\ last' = Op("edit_with_editor", FALSE, MsgDefault, NoOverride)
    /\ UNCHANGED <<account, out, tpl, panicked>>

\* lines 349-353
PreEdit ==
    /\ ed.pc = "pre"
    /\ \E edited \in open_with_draft :
           EditThenPrompt("pre/Edit", edited)
    /\ UNCHANGED <<orig, account, last, out, tpl, panicked>>

\* lines 354-357
PreDiscard ==
    /\ ed.pc = "pre"
    /\ \E edited \in open_with_tpl(to_tpl(msg, NoOverride, account)) :
           EditThenPrompt("pre/Discard", edited)
    /\ UNCHANGED <<orig, account, last, out, tpl, panicked>>

\* line 358
PreQuit ==
    /\ ed.pc = "pre"
    /\ Leave("pre/Quit", <<>>)
    /\ UNCHANGED <<orig, account, last, out, tpl, panicked>>

\* lines 360-363: the prompt failed, continue
PreFailed ==
    /\ ed.pc = "pre"
    /\ ed' = [ed EXCEPT !.choice = "pre/failed", !.log = <<>>]
    /\ UNCHANGED <<msg, orig, account, last, out, tpl, nops, panicked>>

\* lines 372-380
PostSend(send_ok, append_ok, remove_ok, print_ok) ==
    /\ ed.pc = "post"
    /\ Leave("post/Send", send_effects(send_ok, append_ok, remove_ok, print_ok))
    /\ UNCHANGED <<orig, account, last, out, tpl, panicked>>

\* lines 381-384
PostEdit ==
    /\ ed.pc = "post"
    /\ \E edited \in open_with_tpl(to_tpl(msg, NoOverride, account)) :
           EditThenPrompt("post/Edit", edited)
    /\ UNCHANGED <<orig, account, last, out, tpl, panicked>>

\* lines 385-388
PostLocalDraft(print_ok) ==
    /\ ed.pc = "post"
    /\ Leave("post/LocalDraft", local_draft_effects(print_ok))
    /\ UNCHANGED <<orig, account, last, out, tpl, panicked>>

\* lines 389-400
PostRemoteDraft(append_ok, remove_ok, print_ok) ==
    /\ ed.pc = "post"
    /\ Leave("post/RemoteDraft", remote_draft_effects(append_ok, remove_ok, print_ok))
    /\ UNCHANGED <<orig, account, last, out, tpl, panicked>>

\* lines 401-404
PostDiscard(remove_ok) ==
    /\ ed.pc = "post"
    /\ Leave("post/Discard", discard_effects(remove_ok))
    /\ UNCHANGED <<orig, account, last, out, tpl, panicked>>

\* lines 405-408: the prompt failed, continue
PostFailed ==
    /\ ed.pc = "post"
    /\ ed' = [ed EXCEPT !.choice = "post/failed", !.log = <<>>]
    /\ UNCHANGED <<msg, orig, account, last, out, tpl, nops, panicked>>

EditMsgs ==
    {[MsgDefault EXCEPT !.subject = <<"x">>, !.to = t, !.parts = <<TextPlain(<<"Hi">>)>>] :
        t \in {None, Some(<<alice>>)}}

InitEdit == InitWith(EditMsgs, {acct_bob, acct_bob_sig})

NextEdit ==
    \/ \E exists \in BOOLEAN : EditStart(exists)
    \/ PreEdit
    \/ PreDiscard
    \/ PreQuit
    \/ PreFailed
    \/ \E send_ok, append_ok, remove_ok, print_ok \in BOOLEAN :
           PostSend(send_ok, append_ok, remove_ok, print_ok)
    \/ PostEdit
    \/ \E print_ok \in BOOLEAN : PostLocalDraft(print_ok)
    \/ \E append_ok, remove_ok, print_ok \in BOOLEAN :
           PostRemoteDraft(append_ok, remove_ok, print_ok)
    \/ \E remove_ok \in BOOLEAN : PostDiscard(remove_ok)
    \/ PostFailed

SpecEdit == InitEdit /\ [][NextEdit]_vars

----------------------------------------------------------------------------
(* fold_text_parts: inputs and specification *)

FoldPartAlphabet ==
    {TextPlain(<<>>), TextPlain(<<"a">>), TextPlain(<<"b", NL, SP, NL, NL, "c", TAB, "d">>),
     TextHtml(<<"<p>", "Yo", "</p>">>), TextHtml(<<"h", "&nbsp;", "&amp;", NL, NL, NL, "i">>),
     Binary("f.pdf", "application/pdf")}

FoldMsgs == {[Fetched EXCEPT !.parts = p] : p \in PartSeqs(FoldPartAlphabet, MaxParts)}

\* self.fold_text_parts(text_mime)
FoldTextParts(text_mime) ==
    /\ nops = 0
    /\ out' = Ok(fold_text_parts(msg, text_mime))
    /\ orig' = msg
    /\ last' = OpEnv("fold_text_parts", FALSE, MsgDefault, NoOverride,
                     [text_mime |-> text_mime])
    /\ nops' = nops + 1
    /\ UNCHANGED <<msg, account, tpl, panicked, ed>>

InitFold == InitWith(FoldMsgs, {acct_bob})

NextFold == \E text_mime \in {"plain", "html"} : FoldTextParts(text_mime)

SpecFold == InitFold /\ [][NextFold]_vars

----------------------------------------------------------------------------
(* Claims about into_reply and into_forward, checked under SpecReply *)

Replied == last.op = "into_reply" /\ IsOk(out)
Forwarded == last.op = "into_forward" /\ IsOk(out)

\* the account's own address, as into_reply parses it
AccountAddr == mailbox_from_str(account.address)[1]

\* the reply source of the entity as it was before the call
OrigSource == IF IsSome(orig.reply_to) THEN orig.reply_to ELSE orig.from

RE == <<"Re", ":", SP>>
FWD == <<"Fwd", ":", SP>>

\* C1: after into_reply (all = true or false) message_id is absent and
\* in_reply_to is the message_id the entity had before the call.
C1_InReplyToIsOriginalId ==
    Replied => /\ msg.message_id = None
               /\ msg.in_reply_to = orig.message_id

\* C2: into_reply(all = false) sets from to [account address], clears cc and
\* bcc, and sets to to the first address of the original reply_to, else of the
\* original from, that differs from the account's address.
C2_SingleReplyRecipient ==
    (Replied /\ ~last.all) =>
        /\ msg.from = Some(<<AccountAddr>>)
        /\ msg.cc = None
        /\ msg.bcc = None
        /\ (IsSome(OrigSource) /\ filter_ne(OrigSource[1], AccountAddr) # <<>>)
               => msg.to = Some(<<filter_ne(OrigSource[1], AccountAddr)[1]>>)

\* C3: into_reply(all = true) sets to to all addresses of the original reply_to,
\* else of the original from, without the account's address and in their
\* original order; cc and bcc are left as they were.
C3_ReplyAllRecipients ==
    (Replied /\ last.all) =>
        /\ IsSome(OrigSource) => msg.to = Some(filter_ne(OrigSource[1], AccountAddr))
        /\ msg.cc = orig.cc
        /\ msg.bcc = orig.bcc

\* C4 as stated: the subject is prefixed with "Re: " exactly when it does not
\* already start with the literal "Re: " (trailing space included).
C4_PrefixUnlessReSpace ==
    Replied => msg.subject =
        (IF starts_with(orig.subject, RE) THEN orig.subject ELSE RE \o orig.subject)

\* C4 amended: the subject is prefixed with "Re: " exactly when it does not
\* already start with "Re:" (no trailing space needed); the result starts with
\* "Re:", so a second into_reply leaves it as it is, and a result starts with
\* "Re: Re: " only if the subject did before the call.
C4_PrefixUnlessRe ==
    Replied =>
        /\ msg.subject =
              (IF starts_with(orig.subject, <<"Re", ":">>) THEN orig.subject
               ELSE RE \o orig.subject)
        /\ starts_with(msg.subject, <<"Re", ":">>)
        /\ starts_with(msg.subject, RE \o RE) => starts_with(orig.subject, RE \o RE)

\* into_reply applied a second time to its own result
C4_Witness ==
    /\ Replied
    /\ nops = 2
    /\ orig.subject = RE \o <<"x">>
    /\ msg.subject = RE \o <<"x">>
    /\ orig.from = Some(<<AccountAddr>>)

\* C10 as stated: into_forward clears message_id, in_reply_to, cc and bcc, sets
\* from to [account address] and to to the empty list, and prefixes the subject
\* with "Fwd: " exactly when it does not already start with "Fwd: ".
C10_ForwardUnlessFwdSpace ==
    Forwarded =>
        /\ msg.message_id = None /\ msg.in_reply_to = None
        /\ msg.from = Some(<<AccountAddr>>) /\ msg.to = Some(<<>>)
        /\ msg.cc = None /\ msg.bcc = None
        /\ msg.subject =
              (IF starts_with(orig.subject, FWD) THEN orig.subject
               ELSE FWD \o orig.subject)

\* C10 amended: as stated, with the subject prefixed exactly when it does not
\* already start with "Fwd:" (no trailing space needed); a result starts with
\* "Fwd: Fwd: " only if the subject did before the call.
C10_ForwardUnlessFwd ==
    Forwarded =>
        /\ msg.message_id = None /\ msg.in_reply_to = None
        /\ msg.from = Some(<<AccountAddr>>) /\ msg.to = Some(<<>>)
        /\ msg.cc = None /\ msg.bcc = None
        /\ msg.subject =
              (IF starts_with(orig.subject, <<"Fwd", ":">>) THEN orig.subject
               ELSE FWD \o orig.subject)
        /\ starts_with(msg.subject, FWD \o FWD) => starts_with(orig.subject, FWD \o FWD)

\* into_forward applied a second time to its own result
C10_Witness ==
    /\ Forwarded
    /\ nops = 2
    /\ orig.subject = FWD \o <<"x">>
    /\ msg.subject = FWD \o <<"x">>
    /\ orig.to = Some(<<>>)
    /\ orig.from = Some(<<AccountAddr>>)

----------------------------------------------------------------------------
(* Claims about merge_with, checked under SpecMerge *)

Merged == last.op = "merge_with"

PlainOf(parts) == only_kind(parts, "TextPlain")
HtmlOf(parts) == only_kind(parts, "TextHtml")
BinaryOf(parts) == only_kind(parts, "Binary")

\* C5: after merge_with(overlay) each of from, to, cc, bcc is the overlay's
\* value when that is present (an empty list included) and self's prior value
\* when it is absent; the subject is the overlay's when that is not empty and
\* self's prior subject otherwise.
C5_MergeHeaders ==
    Merged =>
        /\ msg.from = (IF last.other.from # None THEN last.other.from ELSE orig.from)
        /\ msg.to = (IF last.other.to # None THEN last.other.to ELSE orig.to)
        /\ msg.cc = (IF last.other.cc # None THEN last.other.cc ELSE orig.cc)
        /\ msg.bcc = (IF last.other.bcc # None THEN last.other.bcc ELSE orig.bcc)
        /\ msg.subject =
              (IF last.other.subject # <<>> THEN last.other.subject ELSE orig.subject)

\* an overlay with to = Some([]) and cc absent, merged into an entity that
\* had both populated
C5_Witness ==
    /\ Merged
    /\ orig.to = Some(<<bob>>) /\ last.other.to = Some(<<>>) /\ msg.to = Some(<<>>)
    /\ orig.cc = Some(<<carol>>) /\ last.other.cc = None /\ msg.cc = Some(<<carol>>)
    /\ orig.subject = <<"x">> /\ last.other.subject = <<>> /\ msg.subject = <<"x">>

\* C6: after merge_with(overlay), if the overlay holds a PlainText part the
\* result holds exactly one PlainText part, the overlay's last one, otherwise
\* self's PlainText parts are unchanged; the same for Html; the Binary parts
\* are self's, in order, followed by the overlay's.
C6_MergeParts ==
    Merged =>
        LET theirs == last.other.parts IN
        /\ PlainOf(msg.parts) =
              (IF PlainOf(theirs) # <<>>
               THEN <<PlainOf(theirs)[Len(PlainOf(theirs))]>>
               ELSE PlainOf(orig.parts))
        /\ HtmlOf(msg.parts) =
              (IF HtmlOf(theirs) # <<>>
               THEN <<HtmlOf(theirs)[Len(HtmlOf(theirs))]>>
               ELSE HtmlOf(orig.parts))
        /\ BinaryOf(msg.parts) = BinaryOf(orig.parts) \o BinaryOf(theirs)
        /\ Len(BinaryOf(msg.parts)) = Len(BinaryOf(orig.parts)) + Len(BinaryOf(theirs))

\* self holds a PlainText and a Binary part, the overlay two PlainText parts
C6_Witness ==
    /\ Merged
    /\ orig.parts = <<TextPlain(<<"old">>), Binary("f.pdf", "application/pdf")>>
    /\ last.other.parts = <<TextPlain(<<"new">>), TextPlain(<<"newer">>)>>
    /\ msg.parts = <<Binary("f.pdf", "application/pdf"), TextPlain(<<"newer">>)>>

----------------------------------------------------------------------------
(* Claims about to_tpl and from_tpl, checked under SpecTpl *)

Rendered == last.op = "to_tpl"
RoundTripped == last.op = "from_tpl" /\ last.opts = NoOverride

\* the template as the header/body parser reads it
TplParsed == parse_headers(tpl, 1, <<>>)[1]

RECURSIVE header_keys(_)
header_keys(headers) ==
    IF headers = <<>> THEN <<>>
    ELSE Head(headers).key \o header_keys(Tail(headers))

\* value of the first header named key, <<"?">> when there is none
RECURSIVE header_value(_, _)
header_value(headers, key) ==
    IF headers = <<>> THEN <<"?">>
    ELSE IF Head(headers).key = <<key>> THEN Head(headers).val
    ELSE header_value(Tail(headers), key)

\* C7: for a message rendered with no overrides, from_tpl(to_tpl(m)) succeeds
\* and returns subject, to, cc and bcc equal to those of m, absent, empty and
\* populated kept apart, and a body that holds m's folded plain-text body
\* (compared up to the signature and final newline that to_tpl appends).
C7_RoundTrip ==
    RoundTripped =>
        /\ IsOk(out)
        /\ out[1].subject = msg.subject
        /\ out[1].to = msg.to
        /\ out[1].cc = msg.cc
        /\ out[1].bcc = msg.bcc
        /\ Len(out[1].parts) = 1
        /\ starts_with(out[1].parts[1].content, fold_text_plain_parts(msg))

\* C8: each header value of the template is the override if one is given, else
\* the entity's field, else (From) the account's address or (To) empty.
C8_HeaderValueSources ==
    Rendered =>
        /\ header_value(TplParsed.headers, "From") =
              (IF IsSome(last.opts.from) THEN strs_join(last.opts.from[1])
               ELSE IF IsSome(msg.from) THEN addrs_join(msg.from[1])
               ELSE account.address)
        /\ header_value(TplParsed.headers, "To") =
              (IF IsSome(last.opts.to) THEN strs_join(last.opts.to[1])
               ELSE IF IsSome(msg.to) THEN addrs_join(msg.to[1])
               ELSE <<>>)

\* C9: the template is the content-type line, then the header lines
\* In-Reply-To (iff present), From, To, Cc (iff override or field present),
\* Bcc (likewise), Subject, in that order, then a blank line, then the body,
\* then a blank line and the signature iff there is one, then a newline.
C9_SectionOrder ==
    Rendered =>
        /\ starts_with(tpl, ContentTypeLine)
        /\ header_keys(TplParsed.headers) =
              <<"Content-Type">>
              \o (IF IsSome(msg.in_reply_to) THEN <<"In-Reply-To">> ELSE <<>>)
              \o <<"From", "To">>
              \o (IF IsSome(last.opts.cc) \/ IsSome(msg.cc) THEN <<"Cc">> ELSE <<>>)
              \o (IF IsSome(last.opts.bcc) \/ IsSome(msg.bcc) THEN <<"Bcc">> ELSE <<>>)
              \o <<"Subject">>
        /\ tpl[TplParsed.body - 1] = NL
        /\ SubSeq(tpl, TplParsed.body, Len(tpl)) =
              (IF IsSome(last.opts.body) THEN last.opts.body[1]
               ELSE fold_text_plain_parts(msg))
              \o (IF IsSome(last.opts.sig) THEN <<NL, NL>> \o last.opts.sig[1]
                  ELSE IF IsSome(account.sig) THEN <<NL, NL>> \o account.sig[1]
                  ELSE <<>>)
              \o <<NL>>

\* a template with In-Reply-To and Cc lines, no Bcc line, and a signature
C9_Witness ==
    /\ Rendered
    /\ IsSome(msg.in_reply_to) /\ IsSome(msg.cc) /\ msg.bcc = None
    /\ last.opts = NoOverride /\ IsSome(account.sig)
    /\ header_keys(TplParsed.headers) =
           <<"Content-Type", "In-Reply-To", "From", "To", "Cc", "Subject">>

----------------------------------------------------------------------------
(* Claims about the parts after into_forward, checked under SpecReply *)

\* the forwarded-message block of the entity as it was before the call
ForwardBlock ==
    <<NL, NL, "-------- Forwarded Message --------", NL>>
    \o <<"Subject", ":", SP>> \o orig.subject \o <<NL>>
    \o (IF orig.date # None THEN <<"Date", ":", SP, orig.date[1], "rfc2822", NL>> ELSE <<>>)
    \o (IF OrigSource # None
        THEN <<"From", ":", SP>> \o addrs_join(OrigSource[1]) \o <<NL>> ELSE <<>>)
    \o (IF orig.to # None
        THEN <<"To", ":", SP>> \o addrs_join(orig.to[1]) \o <<NL>> ELSE <<>>)
    \o <<NL>>
    \o fold_text_plain_parts(orig)

\* C11: into_forward leaves every Html and Binary part in place, unchanged and
\* in the same relative order, and the result holds exactly one PlainText
\* part, the forwarded-message block, in place of all PlainText parts that
\* were there before.
C11_ForwardParts ==
    Forwarded =>
        /\ retain_not(msg.parts, "TextPlain") = retain_not(orig.parts, "TextPlain")
        /\ HtmlOf(msg.parts) = HtmlOf(orig.parts)
        /\ BinaryOf(msg.parts) = BinaryOf(orig.parts)
        /\ PlainOf(msg.parts) = <<TextPlain(ForwardBlock)>>

\* a message with two PlainText parts, an Html part and an attachment, forwarded
C11_Witness ==
    /\ Forwarded
    /\ Len(PlainOf(orig.parts)) = 2
    /\ Len(HtmlOf(orig.parts)) = 1
    /\ Len(BinaryOf(orig.parts)) = 1
    /\ Len(msg.parts) = 3
    /\ msg.parts[3] = TextPlain(ForwardBlock)

----------------------------------------------------------------------------
(* Claims about into_sendable_msg, checked under SpecSend *)

SendableBuilt == last.op = "into_sendable_msg"

\* C12: for an entity with encrypt set, whatever its to list, the PGP
\* configuration and the outcome of the encryption call, into_sendable_msg
\* never aborts: it returns a message whose body is the two-part PGP structure
\* or an error, and it returns an error when no PGP command is configured or
\* the encryption call fails.
C12_EncryptFailuresReturned ==
    (SendableBuilt /\ orig.encrypt) =>
        /\ ~panicked
        /\ IsOk(out) =>
              /\ out[1].body.kind = "encrypted"
              /\ Len(out[1].body.parts) = 2
        /\ (last.env.pgp = Err \/ last.env.pgp = Ok(None)) => out = Err

----------------------------------------------------------------------------
(* Claims about the body built by into_reply, checked under SpecReply *)

\* the first address the reply answers to, taken from the pre-call entity
OrigSender ==
    IF IsSome(OrigSource) /\ OrigSource[1] # <<>> THEN Some(OrigSource[1][1]) ELSE None

OrigSenderText ==
    IF IsSome(OrigSender)
    THEN (IF IsSome(OrigSender[1].name) THEN OrigSender[1].name[1]
          ELSE <<OrigSender[1].email>>)
    ELSE <<"unknown sender">>

OrigDateText ==
    IF IsSome(orig.date) THEN format_date(orig.date, "%d %b %Y, at %H:%M")
    ELSE <<"unknown date">>

\* C14: after into_reply the part collection is exactly one PlainText part: a
\* header line naming the original sender (name, else email, of the first
\* original reply_to address, else of the first pre-call from address, else
\* "unknown sender"), then the lines of the original folded plain-text body,
\* each quoted, up to but excluding the first signature-delimiter line.
C14_ReplyBody ==
    Replied =>
        msg.parts =
            <<TextPlain(<<NL, NL, "On", SP>> \o OrigDateText \o <<",", SP>>
                        \o OrigSenderText \o <<SP, "wrote", ":", NL>>
                        \o quote_lines(lines(trim(fold_text_parts(orig, "plain"))), <<>>))>>

----------------------------------------------------------------------------
(* Claims about fold_text_plain_parts, checked under SpecFold *)

FoldedPlain == last.op = "fold_text_parts" /\ last.env.text_mime = "plain"

RECURSIVE contents(_)
contents(parts) ==
    IF parts = <<>> THEN <<>> ELSE <<Head(parts).content>> \o contents(Tail(parts))

\* the contents joined by a blank line
JoinedContents(parts) == join(contents(parts), <<NL, NL>>)

\* C13: the source is chosen by part presence: with at least one PlainText
\* part, whatever its content, the result is the (sanitized) PlainText contents
\* joined by a blank line and no Html part contributes; with no PlainText part
\* it is the sanitized Html contents joined the same way; with neither it is
\* the empty string.
C13_FoldSelectsByPresence ==
    FoldedPlain =>
        out[1] =
           (IF PlainOf(msg.parts) # <<>>
            THEN merge_spaces(replace_atoms(
                     merge_new_lines(JoinedContents(PlainOf(msg.parts))), {TAB}, SP))
            ELSE IF HtmlOf(msg.parts) # <<>>
            THEN decode_html_entities(merge_spaces(replace_atoms(
                     merge_new_lines(strip_tags(JoinedContents(HtmlOf(msg.parts)))),
                     {TAB, "&nbsp;"}, SP)))
            ELSE <<>>)

----------------------------------------------------------------------------
(* Claims about from_tpl, checked under SpecParse *)

ParsedText == last.op = "from_tpl"

\* the headers of the text, when it splits into headers and body
TextHeaders ==
    IF IsOk(parse_headers(tpl, 1, <<>>)) THEN TplParsed.headers ELSE <<>>

HasHeader(name) ==
    \E i \in DOMAIN TextHeaders : to_lowercase(TextHeaders[i].key) = <<name>>

\* trimmed value of the last header called name
LastValue(name) ==
    LET i == CHOOSE i \in DOMAIN TextHeaders :
                 /\ to_lowercase(TextHeaders[i].key) = <<name>>
                 /\ \A j \in DOMAIN TextHeaders :
                        to_lowercase(TextHeaders[j].key) = <<name>> => j <= i
    IN  trim(TextHeaders[i].val)

AddressHeaders == {"from", "to", "reply-to", "cc", "bcc"}

FieldOf(m, name) ==
    CASE name = "message-id" -> m.message_id
      [] name = "in-reply-to" -> m.in_reply_to
      [] name = "from" -> m.from
      [] name = "to" -> m.to
      [] name = "reply-to" -> m.reply_to
      [] name = "cc" -> m.cc
      [] name = "bcc" -> m.bcc

\* C15: a successful from_tpl returns a fresh entity with exactly one PlainText
\* part, the decoded body; message_id, in_reply_to, from, to, reply_to, cc and
\* bcc are present only if a header of that name occurs (and then hold its
\* value), subject is empty when missing, encrypt is false, every other field
\* keeps its default and headers of any other name leave no trace; an address
\* header whose value does not parse makes from_tpl return an error.
C15_FromTplShape ==
    ParsedText =>
        /\ (\E i \in DOMAIN TextHeaders :
                /\ \E name \in AddressHeaders : to_lowercase(TextHeaders[i].key) = <<name>>
                /\ ~IsOk(parse_addrs(trim(TextHeaders[i].val))))
           => out = Err
        /\ IsOk(out) =>
              /\ Len(out[1].parts) = 1
              /\ out[1].parts[1].kind = "TextPlain"
              /\ Ok(out[1].parts[1].content)
                     = get_body_raw(TextHeaders, SubSeq(tpl, TplParsed.body, Len(tpl)))
              /\ \A name \in {"message-id", "in-reply-to"} :
                     FieldOf(out[1], name) =
                         IF HasHeader(name) THEN Some(LastValue(name)) ELSE None
              /\ \A name \in AddressHeaders :
                     FieldOf(out[1], name) =
                         IF HasHeader(name) THEN parse_addrs(LastValue(name))[1] ELSE None
              /\ out[1].subject = IF HasHeader("subject") THEN LastValue("subject") ELSE <<>>
              /\ out[1].encrypt = FALSE
              /\ out[1].id = MsgDefault.id
              /\ out[1].flags = MsgDefault.flags
              /\ out[1].date = MsgDefault.date

\* a text with To, X-Other and a body: to is set, the other header leaves no trace
C15_Witness ==
    /\ ParsedText
    /\ tpl = <<"To", ":", SP, "Alice", SP, "<", "alice@x", ">", NL,
               "X-Other", ":", SP, "carol@x", NL, NL, "Hi", NL, "there">>
    /\ IsOk(out)
    /\ out[1] = [MsgDefault EXCEPT !.to = Some(<<alice>>),
                                   !.parts = <<TextPlain(<<"Hi", NL, "there">>)>>]

----------------------------------------------------------------------------
(* Claims about edit_with_editor, checked under SpecEdit *)

RECURSIVE call_names(_)
call_names(log) ==
    IF log = <<>> THEN <<>> ELSE <<Head(log).call>> \o call_names(Tail(log))

SendOrder ==
    <<"smtp.send_msg", "imap.append_raw_msg_with_flags", "remove_local_draft",
      "printer.print">>

\* every call but the last returned Ok, and a failed last call is the error returned
ChainedCalls(e) ==
    /\ \A i \in DOMAIN e.log : i < Len(e.log) => e.log[i].ok
    /\ e.ret = IF all_ok(e.log) THEN "ok" ELSE "err"

\* Send: send, append to the sent folder with Seen, remove the draft, in that
\* order; a failed send or append is returned and the draft stays
SendInOrder(e) ==
    e.choice = "post/Send" =>
        /\ ChainedCalls(e)
        /\ e.log # <<>>
        /\ call_names(e.log) = SubSeq(SendOrder, 1, Len(e.log))
        /\ Len(e.log) = Len(SendOrder) \/ ~e.log[Len(e.log)].ok
        /\ Len(e.log) >= 2 =>
               e.log[2].arg = [mbox |-> "sent_folder", flags |-> {"Seen"}]
        /\ (Len(e.log) <= 2 /\ ~all_ok(e.log)) =>
               e.ret = "err" /\ e.draft /\ ~has_call(e.log, "remove_local_draft")

\* the draft is removed only by Send after send and append succeeded, by
\* RemoteDraft after the append succeeded, or by Discard
RemovedOnlyAfter ==
    ((ed.draft /\ ~ed'.draft) \/ has_call(ed'.log, "remove_local_draft")) =>
        \/ /\ ed'.choice = "post/Send"
           /\ Len(ed'.log) >= 3
           /\ call_names(SubSeq(ed'.log, 1, 3)) = SubSeq(SendOrder, 1, 3)
           /\ ed'.log[1].ok /\ ed'.log[2].ok
        \/ /\ ed'.choice = "post/RemoteDraft"
           /\ Len(ed'.log) >= 2
           /\ ed'.log[1] = Call("imap.append_raw_msg_with_flags",
                                [mbox |-> "draft_folder", flags |-> {"Seen", "Draft"}], TRUE)
           /\ ed'.log[2].call = "remove_local_draft"
        \/ /\ ed'.choice = "post/Discard"
           /\ ed'.log[1].call = "remove_local_draft"

\* the post-edit loop is left only by Send, LocalDraft, RemoteDraft, Discard or
\* a returned error
LoopExit ==
    (ed.pc = "post" /\ ed'.pc = "done") =>
        \/ ed'.choice \in {"post/Send", "post/LocalDraft", "post/RemoteDraft",
                           "post/Discard"}
        \/ ed'.ret = "err"

\* a failed prompt leads back to the same prompt
FailedPromptReprompts ==
    /\ ed'.choice = "post/failed" => ed.pc = "post" /\ ed'.pc = "post"
    /\ ed'.choice = "pre/failed" => ed.pc = "pre" /\ ed'.pc = "pre"

\* a pre-edit Quit returns Ok(()) having called nothing
QuitLeavesDraft ==
    ed'.choice = "pre/Quit" =>
        ed'.pc = "done" /\ ed'.ret = "ok" /\ ed'.log = <<>> /\ ed'.draft = ed.draft

EditAlwaysReprompts == ed'.choice = "post/Edit" => ed'.pc = "post"

EditRepromptsUnlessFailed ==
    ed'.choice = "post/Edit" =>
        \/ ed'.pc = "post" /\ all_ok(ed'.log)
        \/ /\ ed'.pc = "done" /\ ed'.ret = "err"
           /\ ~ed'.log[Len(ed'.log)].ok
           /\ ed'.log[Len(ed'.log)].call \in {"editor", "Msg::from_tpl"}
           /\ ed'.draft = (ed.draft \/ ed'.log[1].ok)

\* C16 as stated: Send runs send, append (Seen), removal in that order and a
\* failed send or append is returned with the draft kept; the draft is removed
\* only after a successful Send, RemoteDraft append or Discard, never on
\* LocalDraft or a pre-edit Quit; the post-edit loop ends only on Send,
\* LocalDraft, RemoteDraft, Discard or a returned error; Edit and a failed
\* prompt always lead back to another prompt.
C16_EditorProtocolAlwaysReprompts ==
    [][/\ SendInOrder(ed')
       /\ RemovedOnlyAfter
       /\ LoopExit
       /\ QuitLeavesDraft
       /\ FailedPromptReprompts
       /\ EditAlwaysReprompts]_vars

\* C16 amended: the same, except that Edit leads back to another prompt only
\* when the editor run and the parse of the edited text succeed; when either
\* fails the error is returned at once and the draft is not removed.
C16_EditorProtocol ==
    [][/\ SendInOrder(ed')
       /\ RemovedOnlyAfter
       /\ LoopExit
       /\ QuitLeavesDraft
       /\ FailedPromptReprompts
       /\ EditRepromptsUnlessFailed]_vars

\* an edited message was sent: all four calls of the Send arm succeeded after
\* the edited text was merged, and the draft is gone
C16_Witness ==
    /\ ed.choice = "post/Send"
    /\ ed.ret = "ok"
    /\ call_names(ed.log) = SendOrder
    /\ ~ed.draft
    /\ msg.to = Some(<<carol>>)
    /\ nops = MaxOps

====
